---- MODULE Spec2Model ----
(***************************************************************************)
(* Model of App._execute of the file spreader (src/main.py): validation,   *)
(* listing of the source folder, classification of the files by extension, *)
(* optional shuffle, and the two distribution loops (fixed count per       *)
(* destination, even split) with their messages and summary.               *)
(*                                                                         *)
(* File names, extensions and destination paths are sequences of           *)
(* one-character strings, so that os.path.splitext, str.lower and          *)
(* os.path.basename are computed and not assumed.                          *)
(***************************************************************************)
EXTENDS Integers, Sequences, FiniteSets, TLC

\* ------------------------------------------------------------------ bounds
MaxFiles == 3
MaxDests == 3
MaxPerFolder == 2
MaxListing == 2

\* ------------------------------------------------------- program constants
FILE_TYPES ==
    [ Images |-> {
           <<".", "j", "p", "g">>,
           <<".", "j", "p", "e", "g">>,
           <<".", "p", "n", "g">>,
           <<".", "g", "i", "f">>,
           <<".", "b", "m", "p">>,
           <<".", "t", "i", "f", "f">>,
           <<".", "w", "e", "b", "p">> },
      Videos |-> {
           <<".", "m", "p", "4">>,
           <<".", "m", "o", "v">>,
           <<".", "a", "v", "i">>,
           <<".", "m", "k", "v">>,
           <<".", "w", "m", "v">>,
           <<".", "f", "l", "v">> },
      Audios |-> {
           <<".", "m", "p", "3">>,
           <<".", "w", "a", "v">>,
           <<".", "o", "g", "g">>,
           <<".", "f", "l", "a", "c">>,
           <<".", "a", "a", "c">>,
           <<".", "m", "4", "a">> },
      Documents |-> {
           <<".", "t", "x", "t">>,
           <<".", "d", "o", "c">>,
           <<".", "d", "o", "c", "x">>,
           <<".", "p", "d", "f">>,
           <<".", "x", "l", "s">>,
           <<".", "x", "l", "s", "x">>,
           <<".", "p", "p", "t">>,
           <<".", "p", "p", "t", "x">>,
           <<".", "r", "t", "f">> },
      Other |-> {} ]

FixedCategories == {"Images", "Videos", "Audios", "Documents"}

Categories == FixedCategories \cup {"Other"}

\* ------------------------------------------------------------ str helpers
UpperChars ==
    << "A", "B", "C", "D", "E", "F", "G", "H", "I", "J", "K", "L", "M",
       "N", "O", "P", "Q", "R", "S", "T", "U", "V", "W", "X", "Y", "Z" >>

LowerChars ==
    << "a", "b", "c", "d", "e", "f", "g", "h", "i", "j", "k", "l", "m",
       "n", "o", "p", "q", "r", "s", "t", "u", "v", "w", "x", "y", "z" >>

LowerChar(c) ==
    IF \E i \in 1..Len(UpperChars) : UpperChars[i] = c
    THEN LowerChars[CHOOSE i \in 1..Len(UpperChars) : UpperChars[i] = c]
    ELSE c

\* str.lower()
Lower(s) == [i \in 1..Len(s) |-> LowerChar(s[i])]

\* str.rfind('.') with 1-based positions, 0 when there is no dot
RFindDot(p) ==
    IF \E i \in 1..Len(p) : p[i] = "."
    THEN CHOOSE i \in 1..Len(p) :
            p[i] = "." /\ \A j \in (i+1)..Len(p) : p[j] # "."
    ELSE 0

\* splitext without the rule on leading dots
SplitextExt_AnyLastDot(p) ==
    IF RFindDot(p) > 0 THEN SubSeq(p, RFindDot(p), Len(p)) ELSE << >>

\* os.path.splitext(p)[1] for a name without directory separators: the
\* suffix starting at the last dot, unless only dots precede that dot.
SplitextExt(p) ==
    LET dotIndex == RFindDot(p) IN
    IF dotIndex > 0 /\ \E j \in 1..(dotIndex - 1) : p[j] # "."
    THEN SubSeq(p, dotIndex, Len(p))
    ELSE << >>

\* os.path.splitext(file)[1].lower()
FileExt(file) == Lower(SplitextExt(file))

\* os.path.basename(dest_folder): the last component of the path
Basename(path) == path[Len(path)]

\* ------------------------------------------------------------- test inputs
\* Entries of the source folder used for the classification runs.
AllNames ==
    { <<"a", ".", "j", "p", "g">>,
      <<"B", ".", "J", "P", "G">>,
      <<".", "j", "p", "g">>,
      <<"a", ".", "b", ".", "m", "p", "3">>,
      <<"n">>,
      <<"c", ".", "t", "x", "t">>,
      <<"d", ".", "x", "y", "z">>,
      <<"v", ".", "m", "p", "4">>,
      <<"e", ".">>,
      <<"s", ".", "j", "p", "g">> }

\* Entries that are sub-directories, not regular files.
DirNames == { <<"s", ".", "j", "p", "g">> }

\* Entries of the source folder used for the distribution runs.
RunNameOrder ==
    << <<"a", ".", "j", "p", "g">>,
       <<"v", ".", "m", "p", "4">>,
       <<"c", ".", "t", "x", "t">>,
       <<"d", ".", "x", "y", "z">> >>

AllDestPaths ==
    << <<"p", "x">>, <<"q", "x">>, <<"p", "y">>, <<"q", "y">>, <<"r", "z">> >>

RunChecked ==
    { {"Images", "Videos"}, {"Documents", "Other"}, Categories }

MoveErrors == {"OSError"}

Range(s) == {s[i] : i \in 1..Len(s)}

Reverse(s) == [i \in 1..Len(s) |-> s[Len(s) + 1 - i]]

\* All sequences without repetition over S of length at most n.
DistinctSeqs(S, n) ==
    UNION { { s \in [1..k -> S] : \A i, j \in 1..k : i # j => s[i] # s[j] }
            : k \in 0..n }

\* All orders of the elements of the sequence s (random.shuffle outcomes).
Shuffles(s) ==
    { [i \in 1..Len(s) |-> s[f[i]]] :
        f \in { g \in [1..Len(s) -> 1..Len(s)] :
                  \A i, j \in 1..Len(s) : i # j => g[i] # g[j] } }

RunListings ==
    LET sets == { S \in SUBSET Range(RunNameOrder) : Cardinality(S) <= MaxFiles }
        fwd(S) == SelectSeq(RunNameOrder, LAMBDA x : x \in S)
    IN  { fwd(S) : S \in sets } \cup { Reverse(fwd(S)) : S \in sets }

RunDests ==
    LET m == IF MaxDests < Len(AllDestPaths) THEN MaxDests ELSE Len(AllDestPaths)
        all == SubSeq(AllDestPaths, 1, m)
    IN  { SubSeq(all, 1, d) : d \in 0..m } \cup
        { SubSeq(Reverse(all), 1, d) : d \in 0..m }

\* ------------------------------------------------------------------- state
VARIABLES
    pc,                 \* position inside _execute
    srcState,           \* what the source_entry text designates
    dirEntries,         \* os.listdir(source_folder), when it can be listed
    checked,            \* the checked file-type checkboxes
    dest_folders,       \* list(self.destination_widgets.keys())
    files_per_folder,   \* the spinner value
    random_choice,      \* the "Choose Randomly" checkbox
    source_files_all,
    files_to_move,
    eligible,           \* files_to_move as it stands when distribution starts
    total_moved,
    moved_this_run,
    summary_messages,
    di,                 \* index of dest_folder in the destination loop
    k,                  \* iterations done of the inner range() loop
    it,                 \* position of file_iterator
    base_files,
    remainder,
    attempts,           \* the shutil.move calls made, in order
    dialogs,            \* the _show_message calls made, in order
    sourceDir,          \* regular files present in the source folder
    destDir             \* files present in each destination folder

vars ==
    << pc, srcState, dirEntries, checked, dest_folders, files_per_folder,
       random_choice, source_files_all, files_to_move, eligible, total_moved,
       moved_this_run, summary_messages, di, k, it, base_files, remainder,
       attempts, dialogs, sourceDir, destDir >>

inputs ==
    << srcState, dirEntries, checked, dest_folders, files_per_folder,
       random_choice >>

locals ==
    << source_files_all, files_to_move, eligible, total_moved, moved_this_run,
       summary_messages, di, k, it, base_files, remainder >>

effects == << attempts, sourceDir, destDir >>

\* os.path.isfile(os.path.join(source_folder, f))
IsFile(f) == f \notin DirNames

InitLocals ==
    /\ pc = "validate"
    /\ source_files_all = << >>
    /\ files_to_move = << >>
    /\ eligible = << >>
    /\ total_moved = 0
    /\ moved_this_run = 0
    /\ summary_messages = << >>
    /\ di = 0
    /\ k = 0
    /\ it = 0
    /\ base_files = 0
    /\ remainder = 0
    /\ attempts = << >>
    /\ dialogs = << >>
    /\ sourceDir = { f \in Range(dirEntries) : IsFile(f) }
    /\ destDir = [d \in Range(AllDestPaths) |-> {}]

Init ==
    /\ srcState \in {"unset", "missing", "notdir", "denied", "ok"}
    /\ dirEntries \in (IF srcState = "ok" THEN RunListings ELSE { << >> })
    /\ checked \in RunChecked
    /\ dest_folders \in RunDests
    /\ files_per_folder \in 0..MaxPerFolder
    /\ random_choice \in BOOLEAN
    /\ InitLocals

\* Inputs of the classification runs: any listing, any set of checkboxes.
InitClassify ==
    /\ srcState = "ok"
    /\ dirEntries \in DistinctSeqs(AllNames, MaxListing)
    /\ checked \in SUBSET Categories
    /\ dest_folders = << AllDestPaths[1] >>
    /\ files_per_folder = 1
    /\ random_choice = FALSE
    /\ InitLocals

\* --------------------------------------------------------- classification
\* selected_extensions, lines 462-466
SelectedExtensions(boxes) ==
    UNION { FILE_TYPES[c] : c \in boxes \cap FixedCategories }

\* known_extensions restricted to the checked categories
KnownExtensions_CheckedOnly == SelectedExtensions(checked)

\* known_extensions, line 468
KnownExtensions == UNION { FILE_TYPES[c] : c \in DOMAIN FILE_TYPES }

\* the test of lines 471-479 on one file
FileMatches(file, boxes) ==
    IF "Other" \in boxes
    THEN \/ FileExt(file) \in SelectedExtensions(boxes)
         \/ FileExt(file) \notin KnownExtensions
    ELSE FileExt(file) \in SelectedExtensions(boxes)

\* files_to_move taking every file of the folder
FilesToMove_Unfiltered(files, boxes) == files

\* files_to_move as built by lines 469-479
FilesToMove(files, boxes) ==
    SelectSeq(files, LAMBDA f : FileMatches(f, boxes))

\* ---------------------------------------------------------------- messages
NoFile == << >>

NoDest == << >>

Notice(title, text) == [title |-> title, text |-> text]

\* line 501
FixedMoveError(file, dest_folder, e) ==
    [title |-> "File Move Error", file |-> file, dest |-> NoDest, reason |-> e]

\* line 521
EvenMoveError(file, dest_folder, e) ==
    [title |-> "File Move Error", file |-> NoFile, dest |-> dest_folder,
     reason |-> e]

\* lines 502 and 522
MovedMessage(count, dest_folder) ==
    [kind |-> "Moved", count |-> count, dest |-> Basename(dest_folder)]

NotEnoughNote == [kind |-> "NotEnough", count |-> 0, dest |-> ""]

UnevenNote == [kind |-> "Uneven", count |-> 0, dest |-> ""]

\* ------------------------------------------------------------------ steps
Return(msg) ==
    /\ dialogs' = Append(dialogs, msg)
    /\ pc' = "done"

\* lines 445-450
Validate ==
    /\ pc = "validate"
    /\ IF srcState = "unset"
       THEN Return(Notice("Validation Error", "Please select a source folder."))
       ELSE IF dest_folders = << >>
       THEN Return(Notice("Validation Error",
                          "Please add at least one destination folder."))
       ELSE pc' = "list" /\ UNCHANGED dialogs
    /\ UNCHANGED << inputs, locals, effects >>

\* lines 452-460
ListSource ==
    /\ pc = "list"
    /\ CASE srcState = "missing" ->
              /\ Return(Notice("Error", "Source folder not found"))
              /\ UNCHANGED source_files_all
         [] srcState \in {"notdir", "denied"} ->
              \* NotADirectoryError and PermissionError are not caught
              /\ pc' = "raised"
              /\ UNCHANGED << dialogs, source_files_all >>
         [] OTHER ->
              /\ source_files_all' = SelectSeq(dirEntries, IsFile)
              /\ IF source_files_all' = << >>
                 THEN Return(Notice("Validation Error",
                                    "The source folder is empty."))
                 ELSE pc' = "classify" /\ UNCHANGED dialogs
    /\ UNCHANGED << inputs, files_to_move, eligible, total_moved,
                    moved_this_run, summary_messages, di, k, it, base_files,
                    remainder, effects >>

\* lines 462-483
Classify ==
    /\ pc = "classify"
    /\ files_to_move' = FilesToMove(source_files_all, checked)
    /\ IF files_to_move' = << >>
       THEN Return(Notice("Information", "No files matching the selected types."))
       ELSE pc' = "shuffle" /\ UNCHANGED dialogs
    /\ UNCHANGED << inputs, source_files_all, eligible, total_moved,
                    moved_this_run, summary_messages, di, k, it, base_files,
                    remainder, effects >>

\* lines 485-491 (and the entry of the first destination, lines 492-493)
Shuffle ==
    /\ pc = "shuffle"
    /\ files_to_move' \in (IF random_choice THEN Shuffles(files_to_move)
                                            ELSE { files_to_move })
    /\ eligible' = files_to_move'
    /\ total_moved' = 0
    /\ summary_messages' = << >>
    /\ IF files_per_folder > 0
       THEN pc' = "fixed" /\ di' = 1 /\ k' = 0 /\ moved_this_run' = 0
       ELSE pc' = "even_start" /\ UNCHANGED << di, k, moved_this_run >>
    /\ UNCHANGED << inputs, source_files_all, it, base_files, remainder,
                    dialogs, effects >>

\* the counters incremented after the try statement, on failure as well
Move_CountsFailures(file, dest_folder, errorMessage) ==
    \E result \in {"ok"} \cup MoveErrors :
       /\ attempts' = Append(attempts,
             [file |-> file, dest |-> dest_folder, result |-> result])
       /\ total_moved' = total_moved + 1
       /\ moved_this_run' = moved_this_run + 1
       /\ IF result = "ok"
          THEN /\ sourceDir' = sourceDir \ {file}
               /\ destDir' = [destDir EXCEPT ![dest_folder] = @ \cup {file}]
               /\ UNCHANGED dialogs
          ELSE /\ dialogs' = Append(dialogs, errorMessage[result])
               /\ UNCHANGED << sourceDir, destDir >>

\* shutil.move(source/file, dest_folder/file) and what follows it inside the
\* try statement: the counters on success, the message on an exception
\* (errorMessage maps the exception to the message of the except branch).
Move(file, dest_folder, errorMessage) ==
    \E result \in {"ok"} \cup MoveErrors :
       /\ attempts' = Append(attempts,
             [file |-> file, dest |-> dest_folder, result |-> result])
       /\ IF result = "ok"
          THEN /\ sourceDir' = sourceDir \ {file}
               /\ destDir' = [destDir EXCEPT ![dest_folder] = @ \cup {file}]
               /\ total_moved' = total_moved + 1
               /\ moved_this_run' = moved_this_run + 1
               /\ UNCHANGED dialogs
          ELSE /\ dialogs' = Append(dialogs,
                                    errorMessage[result])
               /\ UNCHANGED << sourceDir, destDir, total_moved,
                               moved_this_run >>

\* files_to_move.pop(0), line 496: the value popped and the list left
\* list.pop() instead of list.pop(0)
PopValue_Last(list) == list[Len(list)]

PopValue(list) == Head(list)

\* the list left untouched on a pop
PopRest_NoPop(list) == list

PopRest(list) == Tail(list)

\* the inner loop running until n files have been moved
FixedLoopGoesOn_UntilMoved ==
    moved_this_run < files_per_folder /\ files_to_move # << >>

\* the inner loop running once too often
FixedLoopGoesOn_OffByOne == k <= files_per_folder /\ files_to_move # << >>

\* lines 494-495: the inner loop goes on
FixedLoopGoesOn == k < files_per_folder /\ files_to_move # << >>

\* lines 494-501, one iteration
FixedMove ==
    /\ pc = "fixed"
    /\ FixedLoopGoesOn
    /\ files_to_move' = PopRest(files_to_move)
    /\ LET file == PopValue(files_to_move)
       IN  Move(file, dest_folders[di],
                [e \in MoveErrors |-> FixedMoveError(file, dest_folders[di], e)])
    /\ k' = k + 1
    /\ UNCHANGED << pc, inputs, source_files_all, eligible, summary_messages,
                    di, it, base_files, remainder >>

\* line 502, then the next destination (lines 492-493) or the end of the loop
FixedEndDest ==
    /\ pc = "fixed"
    /\ ~ FixedLoopGoesOn
    /\ summary_messages' =
          Append(summary_messages, MovedMessage(moved_this_run, dest_folders[di]))
    /\ IF di < Len(dest_folders)
       THEN di' = di + 1 /\ UNCHANGED pc
       ELSE pc' = "fixed_note" /\ UNCHANGED di
    /\ k' = 0
    /\ moved_this_run' = 0
    /\ UNCHANGED << inputs, source_files_all, files_to_move, eligible,
                    total_moved, it, base_files, remainder, dialogs, effects >>

\* the condition of line 504
NotEnoughFiles == Len(dest_folders) * files_per_folder > total_moved

\* lines 504-505
FixedNote ==
    /\ pc = "fixed_note"
    /\ summary_messages' =
          IF NotEnoughFiles THEN Append(summary_messages, NotEnoughNote)
                            ELSE summary_messages
    /\ pc' = "final"
    /\ UNCHANGED << inputs, source_files_all, files_to_move, eligible,
                    total_moved, moved_this_run, di, k, it, base_files,
                    remainder, dialogs, effects >>

\* lines 507-509 (and the entry of the first destination, lines 511-513)
EvenStart ==
    /\ pc = "even_start"
    /\ base_files' = Len(files_to_move) \div Len(dest_folders)
    /\ remainder' = Len(files_to_move) % Len(dest_folders)
    /\ it' = 1
    /\ di' = 1
    /\ k' = 0
    /\ moved_this_run' = 0
    /\ pc' = "even"
    /\ UNCHANGED << inputs, source_files_all, files_to_move, eligible,
                    total_moved, summary_messages, dialogs, effects >>

\* the extra file given to one destination too many
NumToMove_OffByOne(i) == base_files + (IF i <= remainder THEN 1 ELSE 0)

\* num_to_move of line 512 for the 0-based destination index i
NumToMove(i) == base_files + (IF i < remainder THEN 1 ELSE 0)

\* line 514 and the StopIteration of line 519: the inner loop goes on
EvenLoopGoesOn == k < NumToMove(di - 1) /\ it <= Len(files_to_move)

\* lines 514-521, one iteration
EvenMove ==
    /\ pc = "even"
    /\ EvenLoopGoesOn
    /\ it' = it + 1
    /\ LET file == files_to_move[it]
       IN  Move(file, dest_folders[di],
                [e \in MoveErrors |-> EvenMoveError(file, dest_folders[di], e)])
    /\ k' = k + 1
    /\ UNCHANGED << pc, inputs, source_files_all, files_to_move, eligible,
                    summary_messages, di, base_files, remainder >>

\* line 522, then the next destination (lines 511-513) or the end of the loop
EvenEndDest ==
    /\ pc = "even"
    /\ ~ EvenLoopGoesOn
    /\ summary_messages' =
          Append(summary_messages, MovedMessage(moved_this_run, dest_folders[di]))
    /\ IF di < Len(dest_folders)
       THEN di' = di + 1 /\ UNCHANGED pc
       ELSE pc' = "even_note" /\ UNCHANGED di
    /\ k' = 0
    /\ moved_this_run' = 0
    /\ UNCHANGED << inputs, source_files_all, files_to_move, eligible,
                    total_moved, it, base_files, remainder, dialogs, effects >>

\* the note written whatever the remainder
UnevenSplit_Always == remainder >= 0

\* the condition of line 524
UnevenSplit == remainder > 0

\* lines 524-525
EvenNote ==
    /\ pc = "even_note"
    /\ summary_messages' =
          IF UnevenSplit THEN Append(summary_messages, UnevenNote)
                         ELSE summary_messages
    /\ pc' = "final"
    /\ UNCHANGED << inputs, source_files_all, files_to_move, eligible,
                    total_moved, moved_this_run, di, k, it, base_files,
                    remainder, dialogs, effects >>

\* final_summary, line 527
FinalSummary ==
    [title |-> "Success", total |-> total_moved, summary |-> summary_messages]

\* lines 527-528
Finish ==
    /\ pc = "final"
    /\ Return(FinalSummary)
    /\ UNCHANGED << inputs, locals, effects >>

Next ==
    \/ Validate
    \/ ListSource
    \/ Classify
    \/ Shuffle
    \/ FixedMove
    \/ FixedEndDest
    \/ FixedNote
    \/ EvenStart
    \/ EvenMove
    \/ EvenEndDest
    \/ EvenNote
    \/ Finish

Spec == Init /\ [][Next]_vars

NextClassify ==
    \/ Validate
    \/ ListSource
    \/ Classify

SpecClassify == InitClassify /\ [][NextClassify]_vars

TypeOK ==
    /\ pc \in {"validate", "list", "classify", "shuffle", "fixed", "fixed_note",
               "even_start", "even", "even_note", "final", "done", "raised"}
    /\ total_moved \in 0..Len(eligible)
    /\ di \in 0..Len(dest_folders)

\* ================================================================ claims
\* Classification has been carried out: either the distribution is about to
\* start, or the run ended on the "no matching files" message.
Classified ==
    \/ pc = "shuffle"
    \/ /\ pc = "done"
       /\ dialogs # << >>
       /\ dialogs[Len(dialogs)].title = "Information"

\* The matching rule stated on categories: the extension belongs to an
\* enabled fixed category, or Other is enabled and no fixed category has it.
MatchesRule(ext, boxes) ==
    \/ \E c \in boxes \cap FixedCategories : ext \in FILE_TYPES[c]
    \/ /\ "Other" \in boxes
       /\ \A c \in FixedCategories : ext \notin FILE_TYPES[c]

\* C1: after classification a regular file of the source folder is in the
\* eligible list if and only if its extension satisfies the matching rule; a
\* known extension of a disabled fixed category is excluded even when Other
\* is enabled, and with no category enabled the eligible list is empty.
C1_ClassificationSound ==
    Classified =>
       /\ \A f \in Range(source_files_all) :
             f \in Range(files_to_move) <=> MatchesRule(FileExt(f), checked)
       /\ Range(files_to_move) \subseteq Range(source_files_all)
       /\ \A f \in Range(source_files_all) :
             (\E c \in FixedCategories \ checked : FileExt(f) \in FILE_TYPES[c])
                => f \notin Range(files_to_move)
       /\ checked = {} => files_to_move = << >>

\* C1 witness: Other is enabled, a file with a known extension of a disabled
\* category is left out while a file with an unknown extension is taken.
C1_Witness ==
    /\ pc = "shuffle"
    /\ checked = {"Other", "Videos"}
    /\ source_files_all = << <<"a", ".", "j", "p", "g">>, <<"d", ".", "x", "y", "z">> >>
    /\ files_to_move = << <<"d", ".", "x", "y", "z">> >>

\* The extension as the sentence describes it: what follows the last '.'
\* (kept with its dot, as in the extension sets), lower-cased; empty when
\* the name has no '.'.
AfterLastDot(name) ==
    IF RFindDot(name) = 0 THEN << >>
    ELSE Lower(SubSeq(name, RFindDot(name), Len(name)))

\* The name has no '.', or nothing but dots before its last '.'.
OnlyLeadingDots(name) ==
    \A j \in 1..(RFindDot(name) - 1) : name[j] = "."

\* C10 as stated: every file is classified by what follows its last '.',
\* also when that '.' is the first character of the name.
C10_AfterLastDot ==
    Classified =>
       \A f \in Range(source_files_all) :
          f \in Range(files_to_move) <=> MatchesRule(AfterLastDot(f), checked)

\* C10 amended: a name in which some character other than '.' precedes the
\* last '.' is classified by what follows that '.', lower-cased; any other
\* name (no '.', or only dots before the last one, such as '.jpg') has the
\* empty extension and is eligible exactly when Other is enabled.
C10_SplitextExtension ==
    Classified =>
       \A f \in Range(source_files_all) :
          IF OnlyLeadingDots(f)
          THEN f \in Range(files_to_move) <=> "Other" \in checked
          ELSE f \in Range(files_to_move) <=> MatchesRule(AfterLastDot(f), checked)

\* C10 witness: with Images enabled and Other disabled, '.jpg' and a name
\* without '.' are left out while 'B.JPG' is taken.
C10_Witness ==
    /\ pc = "shuffle"
    /\ checked = {"Images"}
    /\ source_files_all = << <<".", "j", "p", "g">>, <<"B", ".", "J", "P", "G">> >>
    /\ files_to_move = << <<"B", ".", "J", "P", "G">> >>

\* ------------------------------------------------ distribution: vocabulary
NumEligible == Len(eligible)

NumDests == Len(dest_folders)

Min(a, b) == IF a < b THEN a ELSE b

\* The run reached line 528: the summary has been shown.
Reported ==
    /\ pc = "done"
    /\ dialogs # << >>
    /\ dialogs[Len(dialogs)].title = "Success"

Report == dialogs[Len(dialogs)]

\* The run is over and got as far as the classification.
Ended == Reported \/ (pc = "done" /\ Classified)

\* Positions in attempts of the moves aimed at the i-th destination.
AttemptsTo(i) ==
    { j \in 1..Len(attempts) : attempts[j].dest = dest_folders[i] }

FailedTo(i) == { j \in AttemptsTo(i) : attempts[j].result # "ok" }

Failures == { j \in 1..Len(attempts) : attempts[j].result # "ok" }

\* Eligible files left when the i-th destination starts under FixedCount.
RECURSIVE RemainingBefore(_)
RemainingBefore(i) ==
    IF i = 1 THEN NumEligible
    ELSE RemainingBefore(i - 1)
            - Min(files_per_folder, RemainingBefore(i - 1))

\* C2 as stated: a FixedCount run moves min(n*D, E) files and the i-th
\* destination receives min(n, files remaining after the previous ones).
C2_FixedCountMoves ==
    (Ended /\ files_per_folder > 0) =>
       /\ total_moved = Min(files_per_folder * NumDests, NumEligible)
       /\ \A i \in 1..NumDests :
             Cardinality(destDir[dest_folders[i]])
                = Min(files_per_folder, RemainingBefore(i))

\* C2 amended: a FixedCount run attempts min(n*D, E) moves, the i-th
\* destination being the target of exactly min(n, files remaining after the
\* previous destinations) attempts (0 once the list is exhausted); the files
\* a destination receives, its reported count and the total moved are these
\* numbers less the failed moves.
C2_FixedCountAttempts ==
    (Ended /\ files_per_folder > 0) =>
       /\ Len(attempts) = Min(files_per_folder * NumDests, NumEligible)
       /\ total_moved = Len(attempts) - Cardinality(Failures)
       /\ \A i \in 1..NumDests :
             /\ Cardinality(AttemptsTo(i))
                   = Min(files_per_folder, RemainingBefore(i))
             /\ RemainingBefore(i) = 0 => AttemptsTo(i) = {}
             /\ Cardinality(destDir[dest_folders[i]])
                   = Cardinality(AttemptsTo(i)) - Cardinality(FailedTo(i))
             /\ Reported =>
                   Report.summary[i].count = Cardinality(destDir[dest_folders[i]])

\* C2 witness: n = 2, three eligible files, three destinations, one failed
\* move: the list runs out in the second destination.
C2_Witness ==
    /\ Reported
    /\ files_per_folder = 2
    /\ NumEligible = 3
    /\ NumDests = 3
    /\ Cardinality(Failures) = 1
    /\ Report.summary[3].count = 0

\* The share of the i-th destination (1-based) under EvenSplit.
EvenShare(i) ==
    (NumEligible \div NumDests)
       + (IF i - 1 < NumEligible % NumDests THEN 1 ELSE 0)

\* C3: an EvenSplit run gives the i-th destination floor(E/D) + 1 move
\* attempts if i - 1 < E mod D and floor(E/D) otherwise; the shares add up to
\* E, differ by at most 1, and the larger ones go to the first destinations.
C3_EvenSplitShares ==
    (Ended /\ files_per_folder = 0) =>
       /\ \A i \in 1..NumDests : Cardinality(AttemptsTo(i)) = EvenShare(i)
       /\ Len(attempts) = NumEligible
       /\ \A i, j \in 1..NumDests :
             /\ Cardinality(AttemptsTo(i)) - Cardinality(AttemptsTo(j)) <= 1
             /\ i < j => Cardinality(AttemptsTo(i)) >= Cardinality(AttemptsTo(j))

\* C3 witness: two eligible files over three destinations, one move failed.
C3_Witness ==
    /\ Reported
    /\ files_per_folder = 0
    /\ NumEligible = 2
    /\ NumDests = 3
    /\ Cardinality(Failures) = 1
    /\ Cardinality(AttemptsTo(3)) = 0

\* The position in the eligible list is covered by the plan.
InPlan(pos) ==
    files_per_folder = 0 \/ pos <= files_per_folder * NumDests

\* C4: no file is the subject of two move attempts, whatever the outcomes of
\* the moves, and at the end of the run every eligible file covered by the
\* plan has been the subject of exactly one attempt.
C4_ExactlyOneAttempt ==
    /\ \A i, j \in 1..Len(attempts) :
          attempts[i].file = attempts[j].file => i = j
    /\ \A j \in 1..Len(attempts) :
          \E pos \in 1..NumEligible : InPlan(pos) /\ eligible[pos] = attempts[j].file
    /\ Reported =>
          \A pos \in 1..NumEligible :
             InPlan(pos) =>
                Cardinality({ j \in 1..Len(attempts) :
                                 attempts[j].file = eligible[pos] }) = 1

\* C4 witness: a move failed and the next file of the list was then moved.
C4_Witness ==
    /\ Reported
    /\ Len(attempts) >= 3
    /\ attempts[1].result # "ok"
    /\ attempts[2].result = "ok"
    /\ attempts[2].file = eligible[2]

\* The failed moves, in order, and the messages shown for them, in order.
FailedAttempts == SelectSeq(attempts, LAMBDA a : a.result # "ok")

FailureMessages == SelectSeq(dialogs, LAMBDA m : m.title = "File Move Error")

\* The number of attempts the plan asks for.
PlannedAttempts ==
    IF files_per_folder > 0
    THEN Min(files_per_folder * NumDests, NumEligible)
    ELSE NumEligible

\* C5: at the end of a run there is exactly one failure message per failed
\* move, each naming the file, the destination and the reason of that move,
\* and all the planned moves have been attempted, none of them twice.
C5_FailuresRecorded ==
    Reported =>
       /\ Len(FailureMessages) = Len(FailedAttempts)
       /\ \A i \in 1..Len(FailureMessages) :
             /\ FailureMessages[i].file = FailedAttempts[i].file
             /\ FailureMessages[i].dest = FailedAttempts[i].dest
             /\ FailureMessages[i].reason = FailedAttempts[i].result
       /\ Len(attempts) = PlannedAttempts
       /\ \A i, j \in 1..Len(attempts) :
             attempts[i].file = attempts[j].file => i = j

\* The "not enough files" note is part of the summary shown.
UnsatisfiedFlag == Reported /\ NotEnoughNote \in Range(Report.summary)

\* C6: the report carries the "not enough files" note if and only if the
\* policy is FixedCount(n) and n * D exceeds the number of eligible files.
C6_UnsatisfiedIffShort ==
    Reported =>
       (UnsatisfiedFlag <=>
           /\ files_per_folder > 0
           /\ files_per_folder * NumDests > NumEligible)

\* The "not perfectly evenly" note is part of the summary shown.
UnevenFlag == Reported /\ UnevenNote \in Range(Report.summary)

\* C7: the report carries the "uneven" note if and only if the policy is
\* EvenSplit and E mod D > 0, whichever moves failed; the note is never
\* written under FixedCount.
C7_UnevenIffRemainder ==
    /\ Reported =>
          (UnevenFlag <=>
              /\ files_per_folder = 0
              /\ NumEligible % NumDests > 0)
    /\ UnevenNote \in Range(summary_messages) => files_per_folder = 0

\* C7 witness: an EvenSplit run with a remainder in which every move failed.
C7_Witness ==
    /\ UnevenFlag
    /\ NumEligible = 3
    /\ NumDests = 2
    /\ Cardinality(Failures) = 3

\* The source folder is missing or cannot be listed.
SourceUnreadable == srcState \in {"missing", "notdir", "denied"}

\* C8: with destinations supplied and a source folder that is missing or
\* cannot be listed, the run ends on the source error message without any
\* move attempt; a readable source folder never ends on that message.
C8_SourceUnreadableSurfaced ==
    /\ (pc \in {"done", "raised"} /\ SourceUnreadable /\ dest_folders # << >>) =>
          /\ pc = "done"
          /\ dialogs = << Notice("Error", "Source folder not found") >>
          /\ attempts = << >>
    /\ (pc = "done" /\ srcState = "ok") =>
          \A i \in 1..Len(dialogs) : dialogs[i].title # "Error"

\* The 1-based index of a destination in the supplied list.
DestIndex(d) == CHOOSE i \in 1..NumDests : dest_folders[i] = d

\* C9: the k-th move attempt is for the k-th file of the eligible list, which
\* follows the listing order when randomize is off; the destinations of
\* successive attempts follow the supplied order; the report has one entry
\* per destination, in the supplied order, entries of count 0 included.
C9_AllocationOrder ==
    /\ \A j \in 1..Len(attempts) : attempts[j].file = eligible[j]
    /\ \A j \in 1..(Len(attempts) - 1) :
          DestIndex(attempts[j].dest) <= DestIndex(attempts[j + 1].dest)
    /\ (~ random_choice /\ pc \notin {"validate", "list", "classify", "shuffle"}) =>
          eligible = SelectSeq(dirEntries, LAMBDA f : f \in Range(eligible))
    /\ Reported =>
          LET entries == SelectSeq(Report.summary, LAMBDA m : m.kind = "Moved")
          IN  /\ Len(entries) = NumDests
              /\ \A i \in 1..NumDests :
                    /\ Report.summary[i] = entries[i]
                    /\ entries[i].dest = Basename(dest_folders[i])
                    /\ entries[i].count = Cardinality(destDir[dest_folders[i]])

\* C9 witness: destinations supplied in an order that is not the sorted one,
\* two attempts, and a last destination that is reported with count 0.
C9_Witness ==
    /\ Reported
    /\ ~ random_choice
    /\ dest_folders = << <<"p", "y">>, <<"q", "x">>, <<"p", "x">> >>
    /\ Len(attempts) = 2
    /\ Report.summary[3].count = 0
    /\ Report.summary[3].dest = "x"
    /\ attempts[2].dest = <<"q", "x">>

\* The distribution loops have been entered.
Distributing ==
    \/ pc \in {"fixed", "fixed_note", "even", "even_note", "final"}
    \/ Reported

\* The destination (1-based) the plan gives to the file at position pos of
\* the eligible list; it depends on the list length, the destinations and the
\* policy, not on any move outcome.
PlannedDestIndex(pos) ==
    IF files_per_folder > 0
    THEN ((pos - 1) \div files_per_folder) + 1
    ELSE LET base == NumEligible \div NumDests
             rem  == NumEligible % NumDests
             upTo(i) == i * base + Min(i, rem)
         IN  CHOOSE i \in 1..NumDests : upTo(i - 1) < pos /\ pos <= upTo(i)

\* The successful moves aimed at the i-th destination.
MovedTo(i) == AttemptsTo(i) \ FailedTo(i)

\* C11: the move attempts are determined by the eligible list, the
\* destination list and the policy alone, so two runs that differ only in
\* which moves fail make the same attempts: the j-th attempt is for the j-th
\* eligible file and for its planned destination, whatever happened before. A
\* failed move uses up the file and the slot (the list left is the rest of
\* the eligible list, nothing is queued again), and a destination's counter
\* counts its successful moves only.
C11_AttemptsIgnoreOutcomes ==
    /\ \A j \in 1..Len(attempts) :
          /\ j <= NumEligible
          /\ attempts[j].file = eligible[j]
          /\ PlannedDestIndex(j) \in 1..NumDests
          /\ attempts[j].dest = dest_folders[PlannedDestIndex(j)]
    /\ Reported => Len(attempts) = PlannedAttempts
    /\ pc = "fixed" =>
          /\ files_to_move = SubSeq(eligible, Len(attempts) + 1, NumEligible)
          /\ k = Cardinality(AttemptsTo(di))
          /\ moved_this_run = Cardinality(MovedTo(di))
    /\ pc = "even" =>
          /\ it = Len(attempts) + 1
          /\ k = Cardinality(AttemptsTo(di))
          /\ moved_this_run = Cardinality(MovedTo(di))
    /\ Distributing =>
          \A i \in 1..Len(summary_messages) :
             summary_messages[i].kind = "Moved" =>
                summary_messages[i].count = Cardinality(MovedTo(i))

\* C11 witness: with n = 2 the first move fails; the second file still goes
\* to the first destination and the third to the second one.
C11_Witness ==
    /\ Reported
    /\ files_per_folder = 2
    /\ NumEligible = 3
    /\ Len(attempts) = 3
    /\ attempts[1].result # "ok"
    /\ attempts[2].dest = dest_folders[1]
    /\ attempts[2].result = "ok"
    /\ attempts[3].dest = dest_folders[2]
    /\ Report.summary[1].count = 1

\* The regular files the source folder holds when the run starts.
SourceFilesAtStart == { f \in Range(dirEntries) : IsFile(f) }

\* The file is not allocated by the run: its extension does not satisfy the
\* matching rule, or the run stopped before the distribution, or, under
\* FixedCount(n), the file stands in the eligible list after position n * D.
NotAllocated(f) ==
    \/ ~ MatchesRule(FileExt(f), checked)
    \/ f \notin Range(eligible)
    \/ /\ files_per_folder > 0
       /\ \E pos \in 1..NumEligible :
             eligible[pos] = f /\ pos > files_per_folder * NumDests

\* C12: whatever the outcomes of the moves, no move is ever attempted for a
\* file the run does not allocate, and such a file stays in the source
\* folder and appears in no destination folder.
C12_UnallocatedUntouched ==
    \A f \in SourceFilesAtStart :
       NotAllocated(f) =>
          /\ \A j \in 1..Len(attempts) : attempts[j].file # f
          /\ f \in sourceDir
          /\ \A d \in DOMAIN destDir : f \notin destDir[d]

\* C12 witness: Images and Videos enabled, n = 1, one destination: a.jpg is
\* moved, v.mp4 (second of the list) and c.txt (not eligible) are left.
C12_Witness ==
    /\ Reported
    /\ files_per_folder = 1
    /\ NumDests = 1
    /\ checked = {"Images", "Videos"}
    /\ eligible = << <<"a", ".", "j", "p", "g">>, <<"v", ".", "m", "p", "4">> >>
    /\ attempts = << [file |-> <<"a", ".", "j", "p", "g">>,
                      dest |-> dest_folders[1], result |-> "ok"] >>
    /\ sourceDir = { <<"v", ".", "m", "p", "4">>, <<"c", ".", "t", "x", "t">> }

\* The sum of the counts of the per-destination lines of a summary.
RECURSIVE SumCounts(_)
SumCounts(msgs) ==
    IF msgs = << >> THEN 0
    ELSE Head(msgs).count + SumCounts(Tail(msgs))

\* The run is over: the handler returned or an exception left it.
Terminated == pc \in {"done", "raised"}

\* The accounting of a run: the total moved is the sum of the counts of the
\* destinations already reported and of the counter of the destination in
\* progress; total moved plus failed moves is the number of attempts, which
\* never exceeds the number of eligible files; the report shown carries the
\* same total and counts.
Accounting ==
    /\ total_moved = SumCounts(summary_messages) + moved_this_run
    /\ total_moved + Cardinality(Failures) = Len(attempts)
    /\ Len(attempts) <= NumEligible
    /\ Len(FailureMessages) = Cardinality(Failures)
    /\ Reported =>
          /\ Report.total = SumCounts(Report.summary)
          /\ Report.total = total_moved
          /\ Report.total =
                Cardinality(UNION { destDir[dest_folders[i]] : i \in 1..NumDests })

\* C13: the accounting holds at every point of a run and in the final
\* report, and the run terminates (after at most E attempts, by the bound on
\* the attempts), the handler running to completion once started.
C13_AccountingAndTermination == [] Accounting /\ <> Terminated

\* C13 witness: a report of a run with both a moved and a failed file over
\* two destinations.
C13_Witness ==
    /\ Reported
    /\ NumDests = 2
    /\ Len(attempts) = 3
    /\ Cardinality(Failures) = 1
    /\ Report.total = 2
    /\ Report.summary[1].count = 1
    /\ Report.summary[2].count = 1

\* _execute runs synchronously to its end on the calling thread: a step
\* that can be taken is taken.
FairSpec == Spec /\ WF_vars(Next)

====
